---- MODULE Spec2Model ----
(***************************************************************************)
(* centimail backend: the classification pipeline of backend/classifier.py *)
(* (classify_and_summarize_messages), its transport and response           *)
(* extraction (backend/openrouter.py), the payload normalisation of        *)
(* backend/gmail.py and the HTTP front end of backend/server.py.           *)
(*                                                                         *)
(* Python values are modelled as tagged records, one field name per type   *)
(* so that values of different types are comparable:                       *)
(*   None  [t |-> "null"]          str   [t |-> "str",  s |-> "..."]       *)
(*   int   [t |-> "num", n |-> 1]  bool  [t |-> "bool", b |-> TRUE]        *)
(*   list  [t |-> "list", l |-> <<...>>]                                   *)
(*   dict  [t |-> "dict", d |-> f]   f a function from key strings         *)
(*   str holding model-reply text: [t |-> "text", x |-> <<tokens>>]        *)
(* Reply text is a sequence of tokens (see the text section): the string   *)
(* operations of openrouter.py (strip, startswith, split, find, rfind,     *)
(* json.loads, json.dumps) are modelled on tokens.                         *)
(***************************************************************************)
EXTENDS Integers, Sequences, FiniteSets, TLC

VARIABLES
    MODEL,            \* config.MODEL, read once at process start
    OPENROUTER_KEY,   \* config.OPENROUTER_KEY
    API_URL,          \* config.API_URL
    pc,               \* "idle" | "returned": position of the front end
    call,             \* the arguments of the last call (or NoCall)
    wire,             \* what the call did on the way to the provider
    ret,              \* how classify_and_summarize_messages ended
    status,           \* HTTP status the front end answered with (0: none yet)
    probe,            \* the parsed object under test (normalizer runs only)
    probeOut,         \* the normalizer's output for probe
    sent_before       \* the response_format of the request sent before this
                      \* call (call-sequence runs only; None when there is none)

vars == <<MODEL, OPENROUTER_KEY, API_URL, pc, call, wire, ret, status, probe, probeOut,
          sent_before>>

-----------------------------------------------------------------------------
(* Python values *)

JNull == [t |-> "null"]
JStr(s) == [t |-> "str", s |-> s]
JNum(n) == [t |-> "num", n |-> n]
JBool(b) == [t |-> "bool", b |-> b]
JList(l) == [t |-> "list", l |-> l]
JDict(d) == [t |-> "dict", d |-> d]
JText(x) == [t |-> "text", x |-> x]

EmptyDict == [k \in {} |-> JNull]

\* isinstance(v, str): both string representations are Python str
IsStr(v) == v.t \in {"str", "text"}
IsDict(v) == v.t = "dict"
IsList(v) == v.t = "list"

\* Python truth value of v (bool(v))
Truthy(v) ==
    CASE v.t = "null" -> FALSE
      [] v.t = "str"  -> v.s # ""
      [] v.t = "text" -> Len(v.x) > 0
      [] v.t = "num"  -> v.n # 0
      [] v.t = "bool" -> v.b
      [] v.t = "list" -> Len(v.l) > 0
      [] v.t = "dict" -> DOMAIN v.d # {}
      [] OTHER -> FALSE

\* a or b
PyOr(a, b) == IF Truthy(a) THEN a ELSE b

\* d.get(k) and d.get(k, default) on the key function d of a dict
Get(d, k) == IF k \in DOMAIN d THEN d[k] ELSE JNull
GetDefault(d, k, default) == IF k \in DOMAIN d THEN d[k] ELSE default

\* [f(x) for x in s]
MapSeq(f(_), s) == [i \in 1..Len(s) |-> f(s[i])]

-----------------------------------------------------------------------------
(* backend/classifier.py: ResultNormalizer *)

safe_str(value) == IF IsStr(value) THEN value ELSE JStr("")

normalize_result_item(raw) ==
    [ id      |-> safe_str(PyOr(PyOr(Get(raw, "id"), Get(raw, "message_id")),
                                Get(raw, "email_id"))),
      label   |-> safe_str(PyOr(PyOr(PyOr(Get(raw, "label"), Get(raw, "classificazione")),
                                     Get(raw, "classification")),
                                Get(raw, "category"))),
      summary |-> safe_str(PyOr(PyOr(PyOr(Get(raw, "summary"), Get(raw, "riassunto")),
                                     Get(raw, "sommario")),
                                Get(raw, "description"))),
      subject |-> safe_str(PyOr(Get(raw, "subject"), Get(raw, "oggetto"))),
      sender  |-> safe_str(PyOr(PyOr(Get(raw, "sender"), Get(raw, "mittente")),
                                Get(raw, "from"))) ]

\* the keys tried for the item list, in order
ListKeys == <<"items", "emails", "results">>

\* the keys whose presence makes the parsed object itself one item
ItemishKeys == {"label", "summary", "classificazione", "riassunto", "subject", "sender"}

\* the list found under the first of ListKeys that holds a list, or JNull
list_candidate(parsed) ==
    LET hits == {i \in DOMAIN ListKeys : IsList(Get(parsed, ListKeys[i]))}
    IN  IF hits = {} THEN JNull
        ELSE Get(parsed, ListKeys[CHOOSE i \in hits : \A j \in hits : i <= j])

extract_items_from_parsed(parsed) ==
    LET found == list_candidate(parsed)
        cand  == IF found # JNull THEN found.l
                 ELSE IF ItemishKeys \cap DOMAIN parsed # {} THEN <<JDict(parsed)>>
                 ELSE <<>>
        dicts == SelectSeq(cand, IsDict)
    IN  [i \in 1..Len(dicts) |-> normalize_result_item(dicts[i].d)]

-----------------------------------------------------------------------------
(* backend/gmail.py: BodyNormalizer.  The fields date_time, snippet,        *)
(* attachments and body are carried to the prompt only and are not read    *)
(* again by the pipeline; the payload keeps the three fields it reads.     *)

normalize_email_details(details) ==
    [ id      |-> PyOr(PyOr(Get(details, "message_id"), Get(details, "id")), JStr("")),
      subject |-> GetDefault(details, "subject", JStr("")),
      sender  |-> GetDefault(details, "sender", JStr("")) ]

-----------------------------------------------------------------------------
(* Reply text.  A text is a sequence of tokens:                            *)
(*   fence  the three backquotes of a Markdown code fence                  *)
(*   nl     a line break            sp    other whitespace                 *)
(*   word   a run of characters that is no JSON and holds no whitespace,   *)
(*          brace, bracket, comma or backquote ("json", "Sure", ...)       *)
(*   lb rb  a lone "{" or "}"       lbk rbk  "[" and "]"     comma  ","    *)
(*   num    a JSON number literal                                          *)
(*   obj    the serialisation of the dict d: it starts with "{" and ends   *)
(*          with "}"                                                       *)

TFence == [k |-> "fence"]
TNl == [k |-> "nl"]
TSp == [k |-> "sp"]
TWord == [k |-> "word"]
TLb == [k |-> "lb"]
TRb == [k |-> "rb"]
TLbk == [k |-> "lbk"]
TRbk == [k |-> "rbk"]
TComma == [k |-> "comma"]
TNum == [k |-> "num"]
TObj(d) == [k |-> "obj", d |-> d]

IsSpace(tok) == tok.k \in {"nl", "sp"}
NotSpace(tok) == ~IsSpace(tok)

\* s[a..b], empty when a > b
Slice(s, a, b) == IF a > b THEN <<>> ELSE SubSeq(s, a, b)

\* str.strip()
Strip(s) ==
    LET keep == {i \in DOMAIN s : ~IsSpace(s[i])}
    IN  IF keep = {} THEN <<>>
        ELSE Slice(s, CHOOSE i \in keep : \A j \in keep : i <= j,
                      CHOOSE i \in keep : \A j \in keep : i >= j)

\* positions of the line breaks of s
Breaks(s) == {i \in DOMAIN s : s[i].k = "nl"}

\* s.split("\n", 1)[-1]: what follows the first line break, or all of s
AfterFirstBreak(s) ==
    IF Breaks(s) = {} THEN s
    ELSE Slice(s, (CHOOSE i \in Breaks(s) : \A j \in Breaks(s) : i <= j) + 1, Len(s))

\* s.rsplit("\n", 1)[0]: what precedes the last line break, or all of s
BeforeLastBreak(s) ==
    IF Breaks(s) = {} THEN s
    ELSE Slice(s, 1, (CHOOSE i \in Breaks(s) : \A j \in Breaks(s) : i >= j) - 1)

strip_code_fences(text) ==
    LET stripped == Strip(text)
        opened   == IF Len(stripped) > 0 /\ stripped[1] = TFence
                    THEN AfterFirstBreak(stripped) ELSE stripped
        closed   == IF Len(opened) > 0 /\ opened[Len(opened)] = TFence
                    THEN BeforeLastBreak(opened) ELSE opened
    IN  Strip(closed)

\* json.loads raising JSONDecodeError
DecodeError == [t |-> "JSONDecodeError"]

\* a token that is a whole JSON value
IsValueTok(tok) == tok.k \in {"obj", "num"}
TokValue(tok) == IF tok.k = "obj" THEN JDict(tok.d) ELSE JNum(1)

\* json.loads(text): white space is allowed around every token; a document is
\* one value, or a bracketed, comma-separated list of values
json_loads(text) ==
    LET s == SelectSeq(text, NotSpace)
        n == Len(s)
    IN  IF n = 1 /\ IsValueTok(s[1]) THEN TokValue(s[1])
        ELSE IF n >= 2 /\ s[1] = TLbk /\ s[n] = TRbk
        THEN LET inner == Slice(s, 2, n - 1)
                 m     == Len(inner)
             IN  IF m = 0 THEN JList(<<>>)
                 ELSE IF m % 2 = 1
                         /\ \A i \in 1..m : IF i % 2 = 1 THEN IsValueTok(inner[i])
                                                         ELSE inner[i] = TComma
                 THEN JList([i \in 1..((m + 1) \div 2) |-> TokValue(inner[2 * i - 1])])
                 ELSE DecodeError
        ELSE DecodeError

\* json.dumps(d) for a dict d
json_dumps(d) == <<TObj(d)>>

\* text.find("{") and text.rfind("}") as token positions, 0 when absent
FindOpen(text) ==
    LET at == {i \in DOMAIN text : text[i].k \in {"obj", "lb"}}
    IN  IF at = {} THEN 0 ELSE CHOOSE i \in at : \A j \in at : i <= j
RFindClose(text) ==
    LET at == {i \in DOMAIN text : text[i].k \in {"obj", "rb"}}
    IN  IF at = {} THEN 0 ELSE CHOOSE i \in at : \A j \in at : i >= j

\* _parse_json_content: the value json.loads gives (of whatever type), or None
parse_json_content(content) ==
    IF Len(content) = 0 THEN JNull
    ELSE LET text   == strip_code_fences(content)
             direct == json_loads(text)
             start  == FindOpen(text)
             end    == RFindClose(text)
         IN  IF direct # DecodeError THEN direct
             ELSE IF start = 0 \/ end = 0 \/ end < start THEN JNull
             ELSE LET second == json_loads(Slice(text, start, end))
                  IN  IF second # DecodeError THEN second ELSE JNull

-----------------------------------------------------------------------------
(* backend/openrouter.py: ResponseExtractor *)

\* "".join(parts) for a sequence of texts
RECURSIVE JoinTexts(_)
JoinTexts(parts) ==
    IF Len(parts) = 0 THEN <<>> ELSE Head(parts).x \o JoinTexts(Tail(parts))

\* a fragment that contributes its text
IsTextPart(item) ==
    /\ IsDict(item)
    /\ Get(item.d, "type") \in {JStr("text"), JStr("output_text")}
    /\ IsStr(Get(item.d, "text"))

content_from_parts(content) ==
    IF IsStr(content) /\ Truthy(content) THEN content
    ELSE IF IsDict(content) THEN JText(json_dumps(content.d))
    ELSE IF IsList(content)
    THEN LET parts == SelectSeq(content.l, IsTextPart)
         IN  IF Len(parts) > 0
             THEN JText(JoinTexts([i \in 1..Len(parts) |-> Get(parts[i].d, "text")]))
             ELSE JNull
    ELSE JNull

\* response.get("choices", []); the provider sends a list or nothing
Choices(response) == GetDefault(response.d, "choices", JList(<<>>))

extract_parsed_json(response) ==
    IF ~IsDict(response) THEN JNull
    ELSE IF IsDict(Get(response.d, "parsed")) THEN Get(response.d, "parsed")
    ELSE LET choices == Choices(response)
         IN  IF ~Truthy(choices) \/ ~IsDict(choices.l[1]) THEN JNull
             ELSE LET message == GetDefault(choices.l[1].d, "message", JDict(EmptyDict))
                  IN  IF ~IsDict(message) THEN JNull
                      ELSE IF IsDict(Get(message.d, "parsed")) THEN Get(message.d, "parsed")
                      ELSE IF IsDict(Get(message.d, "content")) THEN Get(message.d, "content")
                      ELSE JNull

\* mutant: the text of the first choice is tried before the message's content
extract_content_text_first(response) ==
    IF ~IsDict(response) THEN JNull
    ELSE LET top == content_from_parts(Get(response.d, "content"))
             choices == Choices(response)
         IN  IF Truthy(top) THEN top
             ELSE IF ~Truthy(choices) THEN JNull
             ELSE LET first   == IF IsDict(choices.l[1]) THEN choices.l[1].d ELSE EmptyDict
                      message == IF IsDict(Get(first, "message"))
                                 THEN Get(first, "message").d ELSE EmptyDict
                      inner   == content_from_parts(Get(message, "content"))
                  IN  IF IsStr(Get(first, "text")) THEN Get(first, "text")
                      ELSE IF Truthy(inner) THEN inner
                      ELSE JNull

extract_content(response) ==
    IF ~IsDict(response) THEN JNull
    ELSE LET top == content_from_parts(Get(response.d, "content"))
             choices == Choices(response)
         IN  IF Truthy(top) THEN top
             ELSE IF ~Truthy(choices) THEN JNull
             ELSE LET first   == IF IsDict(choices.l[1]) THEN choices.l[1].d ELSE EmptyDict
                      message == IF IsDict(Get(first, "message"))
                                 THEN Get(first, "message").d ELSE EmptyDict
                      inner   == content_from_parts(Get(message, "content"))
                  IN  IF Truthy(inner) THEN inner
                      ELSE IF IsStr(Get(first, "text")) THEN Get(first, "text")
                      ELSE JNull

\* the pair (parsed, content) that parse_openrouter_json returns
parse_openrouter_json(response) ==
    LET parsed_json == extract_parsed_json(response)
        content     == PyOr(extract_content(response), JText(<<>>))
    IN  IF IsDict(parsed_json)
        THEN [parsed |-> parsed_json, content |-> JText(json_dumps(parsed_json.d))]
        ELSE [parsed |-> parse_json_content(content.x), content |-> content]

-----------------------------------------------------------------------------
(* backend/openrouter.py: TransportAdapter.  net is what the single        *)
(* urlopen attempt meets:                                                  *)
(*   [kind |-> "ok", body |-> v]    a 2xx answer whose body decodes to v   *)
(*   [kind |-> "undecodable"]       a 2xx answer whose body is no JSON     *)
(*   [kind |-> "http", code, reason, body, readable]   urllib HTTPError;   *)
(*                                  readable: whether e.read() succeeds    *)
(*   [kind |-> "url", reason]       urllib URLError (refused, DNS, ...)    *)
(*   [kind |-> "other", message]    any other Exception (timeout, ...)     *)
(*   [kind |-> "pending"]           the attempt has not come back yet      *)

\* the request body built before the attempt
build_payload(model, messages, max_tokens, reasoning, response_format, provider) ==
    ("model" :> model) @@ ("messages" :> messages)
    @@ (IF max_tokens # JNull THEN "max_tokens" :> max_tokens ELSE EmptyDict)
    @@ (IF reasoning # JNull THEN "reasoning" :> reasoning ELSE EmptyDict)
    @@ (IF response_format # JNull THEN "response_format" :> response_format ELSE EmptyDict)
    @@ (IF provider # JNull THEN "provider" :> provider ELSE EmptyDict)

\* except urllib.error.HTTPError: the body is read best-effort
on_http_error(net) ==
    JDict([error  |-> JStr("HTTPError"),
           status |-> JNum(net.code),
           reason |-> JStr(net.reason),
           body   |-> IF net.readable THEN JStr(net.body) ELSE JStr("")])

\* mutant: the connection failure is answered like a missing setting, with None
on_url_error_none(net) == JNull

\* except urllib.error.URLError
on_url_error(net) ==
    JDict([error |-> JStr("URLError"), reason |-> JStr(net.reason)])

\* except Exception
on_exception(message) ==
    JDict([error |-> JStr("UnexpectedError"), message |-> JStr(message)])

\* the value the try block of call_openrouter returns for net
attempt(net) ==
    CASE net.kind = "pending" -> JNull
      [] net.kind = "ok" -> net.body
      [] net.kind = "undecodable" -> on_exception("Expecting value: line 1 column 1 (char 0)")
      [] net.kind = "http" -> on_http_error(net)
      [] net.kind = "url" -> on_url_error(net)
      [] net.kind = "other" -> on_exception(net.message)

\* call_openrouter: the value returned, the request body if one was built,
\* and the number of network attempts made
call_openrouter(model, messages, max_tokens, reasoning, response_format, provider, api_url, net) ==
    LET target_url == PyOr(api_url, API_URL)
    IN  IF ~Truthy(OPENROUTER_KEY)
        THEN [response |-> JNull, payload |-> JNull, url |-> JNull, attempts |-> 0]
        ELSE IF ~Truthy(target_url)
        THEN [response |-> JNull, payload |-> JNull, url |-> JNull, attempts |-> 0]
        ELSE [response |-> attempt(net),
              payload  |-> JDict(build_payload(model, messages, max_tokens, reasoning,
                                               response_format, provider)),
              url      |-> target_url,
              attempts |-> 1]

-----------------------------------------------------------------------------
(* backend/config.py and backend/classifier.py: PromptBuilder *)

DEFAULT_LABELS ==
    JList(<<JStr("azione_richiesta"), JStr("informazione"),
            JStr("importante"), JStr("non_importante")>>)

\* ", ".join(labels): the labels in order, the separator between neighbours
RECURSIVE join_labels(_)
join_labels(labels) ==
    IF Len(labels) = 0 THEN <<>>
    ELSE IF Len(labels) = 1 THEN <<labels[1]>>
    ELSE <<labels[1], JStr(", ")>> \o join_labels(Tail(labels))

\* the instructions: fixed prose around the list of the labels
build_system_prompt(labels) == join_labels(labels.l)

\* the one chat turn: the instructions, which list the labels, followed by
\* the JSON of the payloads
build_messages(email_payloads, labels) ==
    <<[role |-> "user", label_list |-> build_system_prompt(labels),
       emails |-> email_payloads]>>

\* mutant: the schema built for an earlier request is kept and sent again
build_structured_output_format_reused(labels) ==
    IF sent_before # JNull THEN sent_before
    ELSE JDict([type   |-> JStr("json_schema"),
                name   |-> JStr("gmail_triage_output"),
                strict |-> JBool(TRUE),
                required |-> <<"id", "label", "summary", "subject", "sender">>,
                enum   |-> labels.l,
                maxLength |-> 280,
                additionalProperties |-> FALSE])

build_structured_output_format(labels) ==
    JDict([type   |-> JStr("json_schema"),
           name   |-> JStr("gmail_triage_output"),
           strict |-> JBool(TRUE),
           required |-> <<"id", "label", "summary", "subject", "sender">>,
           enum   |-> labels.l,
           maxLength |-> 280,
           additionalProperties |-> FALSE])

-----------------------------------------------------------------------------
(* backend/classifier.py: classify_and_summarize_messages *)

\* how a call ends
Return(value) == [kind |-> "return", value |-> value]
Raise(exc) == [kind |-> "raise", exc |-> exc]

\* what a call did on the way to the provider
Wire(messages, sent, net) ==
    [messages |-> messages, payload |-> sent.payload, url |-> sent.url,
     attempts |-> sent.attempts,
     net |-> IF sent.attempts > 0 THEN net ELSE [kind |-> "none"]]
NoWire ==
    [messages |-> JNull, payload |-> JNull, url |-> JNull, attempts |-> 0,
     net |-> [kind |-> "none"]]

\* mutant: an id found in no payload falls back to the first payload
by_id_first(payloads, field, item_id) ==
    LET hits == {i \in DOMAIN payloads : payloads[i].id = item_id}
    IN  IF hits = {} THEN payloads[1][field]
        ELSE payloads[CHOOSE i \in hits : \A j \in hits : i >= j][field]

\* {item["id"]: item[field] for item in payloads}.get(item_id, ""):
\* a later payload with the same id replaces an earlier one
by_id(payloads, field, item_id) ==
    LET hits == {i \in DOMAIN payloads : payloads[i].id = item_id}
    IN  IF hits = {} THEN JStr("")
        ELSE payloads[CHOOSE i \in hits : \A j \in hits : i >= j][field]

\* mutant: the input's subject and sender replace the model's whenever the
\* item has an id
backfill_always(item, payloads) ==
    [item EXCEPT
        !.subject = IF Truthy(item.id)
                    THEN by_id(payloads, "subject", item.id) ELSE @,
        !.sender  = IF Truthy(item.id)
                    THEN by_id(payloads, "sender", item.id) ELSE @]

\* the body of the loop over the normalised items
backfill(item, payloads) ==
    [item EXCEPT
        !.subject = IF Truthy(item.id) /\ ~Truthy(item.subject)
                    THEN by_id(payloads, "subject", item.id) ELSE @,
        !.sender  = IF Truthy(item.id) /\ ~Truthy(item.sender)
                    THEN by_id(payloads, "sender", item.id) ELSE @]

\* the results of the function
empty_result == [items |-> <<>>]
\* mutant: the error field is left out
no_response_result_bare == [items |-> <<>>]
no_response_result == [items |-> <<>>, error |-> "No response from OpenRouter."]
transport_error_result(response) ==
    [items |-> <<>>, error |-> "OpenRouter error", details |-> response]
\* mutant: the content is reported as parsed, with its code fences stripped
parse_failure_result_stripped(content, response) ==
    [items |-> <<>>,
     error |-> "Failed to parse JSON response.",
     raw_content |-> JText(strip_code_fences(content.x)),
     raw_response |-> response]
parse_failure_result(content, response) ==
    [items |-> <<>>,
     error |-> "Failed to parse JSON response.",
     raw_content |-> content,
     raw_response |-> response]

\* mutant: "email_details is None", which an empty list is not
no_emails_none_only(email_details) == FALSE

\* not email_details
no_emails(email_details) == Len(email_details) = 0

\* the error record call_openrouter returns, as the function tells it apart
is_error_record(response) ==
    /\ IsDict(response)
    /\ Truthy(Get(response.d, "error"))
    /\ "choices" \notin DOMAIN response.d

\* the part of the function after call_openrouter has returned response
finish(response, payloads) ==
    IF ~Truthy(response) THEN no_response_result
    ELSE IF is_error_record(response) THEN transport_error_result(response)
    ELSE LET got == parse_openrouter_json(response)
         IN  IF IsDict(got.parsed)
             THEN LET items == extract_items_from_parsed(got.parsed.d)
                  IN  [items |-> [i \in 1..Len(items) |-> backfill(items[i], payloads)]]
             ELSE parse_failure_result(got.content, response)

\* the whole call: how it ends (ret) and what it did (wire)
classify_and_summarize_messages(email_details, model, labels, max_tokens, exclude_reasoning, use_structured_output, api_url, net) ==
    IF no_emails(email_details)
    THEN [ret |-> Return(empty_result), wire |-> NoWire]
    ELSE LET chosen_model == PyOr(model, MODEL)
         IN  IF ~Truthy(chosen_model)
             THEN [ret |-> Raise("ValueError"), wire |-> NoWire]
             ELSE LET chosen_labels == PyOr(labels, DEFAULT_LABELS)
                      payloads == MapSeq(normalize_email_details, email_details)
                      messages == build_messages(payloads, chosen_labels)
                      reasoning == IF exclude_reasoning
                                   THEN JDict([exclude |-> JBool(TRUE)]) ELSE JNull
                      response_format == IF use_structured_output
                                         THEN build_structured_output_format(chosen_labels)
                                         ELSE JNull
                      provider == IF use_structured_output
                                  THEN JDict([require_parameters |-> JBool(TRUE)]) ELSE JNull
                      sent == call_openrouter(chosen_model, messages, max_tokens, reasoning,
                                              response_format, provider, api_url, net)
                  IN  [ret  |-> Return(finish(sent.response, payloads)),
                       wire |-> Wire(messages, sent, net)]

-----------------------------------------------------------------------------
(* Bounds *)

\* longest batch of emails in one call
MaxBatch == 2
\* longest item list in a model reply
MaxItems == 2

\* the sequences over S of length at most n
SeqsUpTo(S, n) == UNION {[1..k -> S] : k \in 0..n}

-----------------------------------------------------------------------------
(* Inputs: the batches the front ends hand over *)

\* EmailInput.model_dump(): every declared field is present, None when the
\* client did not send it
EmailInput(id, message_id, subject, sender) ==
    [id |-> id, message_id |-> message_id, subject |-> subject, sender |-> sender]

EmailInputs ==
    { EmailInput(JStr("m1"), JNull, JStr("Invoice due"), JStr("billing@x.com")),
      EmailInput(JStr("m2"), JNull, JNull, JNull),
      EmailInput(JStr("m2"), JStr("m1"), JStr("Reminder"), JStr("boss@x.com")),
      EmailInput(JNull, JNull, JStr("No id"), JNull),
      EmailInput(JStr("m3"), JNull, JStr(""), JStr("")) }

\* gmail.get_details plus the message_id that fetch_unread_message_details adds:
\* a missing Subject or From header is replaced by a fixed text
get_details(message_id, subject_header, from_header) ==
    [message_id |-> JStr(message_id),
     subject    |-> PyOr(subject_header, JStr("No subject")),
     sender     |-> PyOr(from_header, JStr("Unknown sender"))]

UnreadDetails ==
    { get_details("m1", JStr("Invoice due"), JStr("billing@x.com")),
      get_details("m2", JNull, JNull) }

\* the ids of the model: those of the batch and one the batch never holds
UnknownId == "zz"

-----------------------------------------------------------------------------
(* Inputs: what the provider answers *)

\* elements of a reply's item list
ReplyItems ==
    { JDict([id |-> JStr("m1"), label |-> JStr("azione_richiesta"),
             summary |-> JStr("Payment due.")]),
      JDict([id |-> JStr("m1"), label |-> JStr("importante"), summary |-> JStr("Pay."),
             subject |-> JStr("Other subject"), sender |-> JStr("other@y.com")]),
      JDict([classificazione |-> JStr("informazione"), riassunto |-> JStr("FYI only.")]),
      JDict([id |-> JStr(UnknownId), label |-> JStr("importante"), subject |-> JStr("")]),
      JDict([message_id |-> JStr("m2"), category |-> JStr("informazione"),
             oggetto |-> JStr("Oggetto"), mittente |-> JNum(5)]),
      JDict(("from" :> JStr("hr@x.com"))
            @@ [email_id |-> JStr("m3"), classification |-> JStr("non_importante"),
                description |-> JStr("Newsletter.")]),
      JStr("not a record") }

ItemLists == SeqsUpTo(ReplyItems, MaxItems)
RecordLists == SeqsUpTo({it \in ReplyItems : IsDict(it)}, MaxItems)

\* a short item list for the replies whose shape, not whose items, varies
SomeItems ==
    <<JDict([id |-> JStr("m1"), label |-> JStr("azione_richiesta"),
             summary |-> JStr("Payment due.")])>>

\* the objects a reply may hold
ReplyObjects ==
    { [items |-> JList(l)] : l \in ItemLists }
    \cup { [emails |-> JList(SomeItems)],
           [results |-> JList(SomeItems)],
           [items |-> JStr("none"), results |-> JList(SomeItems)],
           [items |-> JList(<<>>), emails |-> JList(SomeItems)],
           [id |-> JStr("m1"), label |-> JStr("importante")],
           [id |-> JStr("m2"), category |-> JStr("importante")],
           [id |-> JStr("m1"), classification |-> JStr("importante")],
           [oggetto |-> JStr("Oggetto"), mittente |-> JStr("boss@x.com")],
           [items |-> JDict([label |-> JStr("importante")]), summary |-> JStr("Pay.")],
           \* elements that hold two keys of one synonym group
           [items |-> JList(<<JDict([id |-> JNull, message_id |-> JStr("m2"),
                                     label |-> JStr(""),
                                     classificazione |-> JStr("informazione")])>>)],
           [items |-> JList(<<JDict([label |-> JStr("importante"),
                                     category |-> JStr("informazione"),
                                     summary |-> JNum(5),
                                     description |-> JStr("Newsletter.")])>>)],
           [riassunto |-> JStr("FYI only.")],
           [foo |-> JNum(1)],
           EmptyDict }

SomeObject == [items |-> JList(SomeItems)]
\* an object that holds an empty item list
NoItems == [items |-> JList(<<>>)]

\* texts that hold the object d
Plain(d) == <<TObj(d)>>
Fenced(d) == <<TFence, TWord, TNl, TObj(d), TNl, TFence>>
InProse(d) == <<TWord, TSp, TObj(d), TSp, TWord>>

\* the text of a bare JSON list of the records of l
RECURSIVE Elements(_)
Elements(l) ==
    IF Len(l) = 0 THEN <<>>
    ELSE IF Len(l) = 1 THEN <<TObj(l[1].d)>>
    ELSE <<TObj(l[1].d), TComma, TSp>> \o Elements(Tail(l))
BareList(l) == <<TLbk>> \o Elements(l) \o <<TRbk>>

\* texts from which no object can be recovered
Unparsable ==
    { <<TWord, TSp, TWord>>,
      <<TWord, TLb, TWord>>,
      <<TRb, TWord, TLb>>,
      <<TLb, TWord, TRb>>,
      <<TNum>>,
      <<TSp, TNl>>,
      <<TFence, TWord, TNl, TWord, TSp, TWord, TNl, TFence>> }

ReplyTexts ==
    { Plain(d) : d \in ReplyObjects }
    \cup { Fenced(SomeObject), InProse(SomeObject), <<TFence, TObj(SomeObject), TFence>> }
    \cup { BareList(l) : l \in RecordLists }
    \cup { <<TWord, TSp>> \o BareList(l) : l \in RecordLists }
    \cup Unparsable

\* the usual chat completion holding content
Chat(content) ==
    JDict([choices |-> JList(<<JDict([message |-> JDict([content |-> content])])>>)])

Fragment(type, text) == JDict([type |-> JStr(type), text |-> text])

\* other shapes of a 2xx body
OtherBodies ==
    { JDict(EmptyDict),
      JNull,
      JList(<<>>),
      JList(<<JNum(1)>>),
      JDict([error |-> JDict([message |-> JStr("rate limited")])]),
      JDict([error |-> JDict([message |-> JStr("partial")]),
             choices |-> JList(<<JDict([message |-> JDict(
                                     [content |-> JText(Plain(SomeObject))])])>>)]),
      JDict([choices |-> JList(<<>>)]),
      JDict([choices |-> JNull]),
      JDict([parsed |-> JDict(SomeObject)]),
      JDict([parsed |-> JDict(SomeObject), content |-> JText(<<TWord>>)]),
      JDict([choices |-> JList(<<JDict([message |-> JDict(
                 [parsed |-> JDict(SomeObject), content |-> JText(<<TWord>>)])])>>)]),
      Chat(JDict(SomeObject)),
      Chat(JList(<<Fragment("text", JText(<<TWord, TSp>>)),
                   Fragment("image", JText(<<TWord>>)),
                   Fragment("output_text", JText(Plain(SomeObject)))>>)),
      Chat(JList(<<Fragment("image", JText(<<TWord>>))>>)),
      Chat(JText(<<>>)),
      Chat(JNull),
      JDict([content |-> JText(Plain(SomeObject))]),
      JDict([choices |-> JList(<<JDict([text |-> JText(Plain(SomeObject))])>>)]),
      JDict([choices |-> JList(<<JDict([text |-> JText(<<TWord>>),
                                        message |-> JDict([content |-> JText(Plain(SomeObject))])])>>)]),
      JDict([choices |-> JList(<<JStr("x")>>)]),
      \* a pre-parsed object beside content and text that hold another object
      JDict([parsed |-> JDict(NoItems), content |-> JText(Plain(SomeObject))]),
      JDict([choices |-> JList(<<JDict([text |-> JText(Plain(SomeObject)),
                                        message |-> JDict(
                 [parsed |-> JDict(NoItems), content |-> JText(Plain(SomeObject))])])>>)]),
      JDict([parsed |-> JList(<<JNum(1)>>), content |-> JText(Plain(SomeObject))]),
      \* content at the top level and in the message
      JDict([content |-> JText(<<TWord>>),
             choices |-> JList(<<JDict([message |-> JDict(
                                     [content |-> JText(Plain(SomeObject))])])>>)]),
      JDict([content |-> JText(<<TWord>>),
             choices |-> JList(<<JDict([message |-> JDict(
                                     [content |-> JDict(SomeObject)])])>>)]),
      \* text beside content that yields nothing
      JDict([choices |-> JList(<<JDict([text |-> JText(Plain(SomeObject)),
                                        message |-> JDict([content |-> JText(<<>>)])])>>)]),
      JDict([choices |-> JList(<<JDict([text |-> JText(Plain(SomeObject)),
                                        message |-> JDict([content |-> JNum(5)])])>>)]),
      JDict([choices |-> JList(<<JDict([text |-> JText(Plain(SomeObject)),
                                        message |-> JDict([content |-> JList(
                                            <<Fragment("text", JText(<<>>))>>)])])>>)]),
      JDict([choices |-> JList(<<JDict([text |-> JText(Plain(SomeObject)),
                                        message |-> JStr("m")])>>)]),
      \* text and content outside the first choice
      JDict([text |-> JText(Plain(SomeObject))]),
      JDict([choices |-> JList(<<JDict([message |-> JDict(EmptyDict)]),
                                 JDict([message |-> JDict(
                                     [content |-> JText(Plain(SomeObject))])])>>)]) }

OkNets ==
    { [kind |-> "ok", body |-> Chat(JText(x))] : x \in ReplyTexts }
    \cup { [kind |-> "ok", body |-> b] : b \in OtherBodies }

FailedNets ==
    { [kind |-> "undecodable"],
      [kind |-> "http", code |-> 401, reason |-> "Unauthorized",
       body |-> "{\"error\":\"bad key\"}", readable |-> TRUE],
      [kind |-> "http", code |-> 401, reason |-> "Unauthorized",
       body |-> "{\"error\":\"bad key\"}", readable |-> FALSE],
      [kind |-> "http", code |-> 500, reason |-> "Server Error", body |-> "", readable |-> TRUE],
      [kind |-> "url", reason |-> "Connection refused"],
      [kind |-> "other", message |-> "timed out"] }

Nets == OkNets \cup FailedNets

\* one net of each kind, for the calls that vary their options
SomeNets ==
    { [kind |-> "ok", body |-> Chat(JText(Plain(SomeObject)))],
      [kind |-> "ok", body |-> Chat(JText(<<TWord, TSp, TWord>>))],
      [kind |-> "http", code |-> 401, reason |-> "Unauthorized",
       body |-> "{\"error\":\"bad key\"}", readable |-> TRUE],
      [kind |-> "url", reason |-> "Connection refused"] }

-----------------------------------------------------------------------------
(* Inputs: the requests of the front end (backend/server.py) *)

\* server.ClassifyEmailsRequest / ClassifyUnreadRequest, with their defaults
Request(emails, model, labels, include_reasoning, use_structured_output, api_url) ==
    [emails |-> emails, model |-> model, labels |-> labels, max_tokens |-> JNum(800),
     include_reasoning |-> include_reasoning,
     use_structured_output |-> use_structured_output, api_url |-> api_url]

DefaultRequest(emails) == Request(emails, JNull, JNull, FALSE, TRUE, JNull)

ModelArgs == {JNull, JStr("override/model")}
UrlArgs == {JNull, JStr("https://override.example/v1")}
LabelArgs == {JNull, JList(<<>>), JList(<<JStr("spam"), JStr("ham")>>)}

\* every batch, with the default options
SweepRequests == {DefaultRequest(b) : b \in SeqsUpTo(EmailInputs, MaxBatch)}

\* every combination of options, on the batches of at most one email
OptionRequests ==
    {Request(b, m, l, r, s, u) :
        b \in SeqsUpTo(EmailInputs, 1), m \in ModelArgs, l \in LabelArgs,
        r \in BOOLEAN, s \in BOOLEAN, u \in UrlArgs}

\* the options alone: the unread endpoint takes no emails
UnreadRequests == {r \in OptionRequests : Len(r.emails) = 0}

\* what gmail.fetch_unread_message_details hands over
Mailboxes == SeqsUpTo(UnreadDetails, MaxBatch)

-----------------------------------------------------------------------------
(* The state machine.  A request is handled in one step when the call ends *)
(* before the network attempt, and in two when it blocks in urlopen: the   *)
(* provider's answer (or the failure of the attempt) is the second step,   *)
(* which runs the rest of the handler.                                     *)

NoCall == [op |-> "none"]
NoRet == [kind |-> "none"]
NoProbe == [of |-> "none"]
Pending == [kind |-> "pending"]

\* config.load_openrouter_config: each value is None when the key is absent,
\* "" when it is set to nothing
ConfigValues(v) == {JNull, JStr(""), JStr(v)}

Init ==
    /\ MODEL \in ConfigValues("openai/gpt-4o-mini")
    /\ OPENROUTER_KEY \in ConfigValues("sk-or-key")
    /\ API_URL \in ConfigValues("https://openrouter.ai/api/v1/chat/completions")
    /\ pc = "idle"
    /\ call = NoCall
    /\ wire = NoWire
    /\ ret = NoRet
    /\ status = 0
    /\ probe = NoProbe
    /\ probeOut = <<>>
    /\ sent_before = JNull

\* the status the handlers of server.py answer with
status_of(outcome) ==
    IF outcome.kind = "return" THEN 200
    ELSE IF outcome.exc = "ValueError" THEN 400
    ELSE 500

\* the batch the current call classifies
Batch == IF call.op = "classify_emails" THEN call.req.emails ELSE call.fetched.l

\* classify_and_summarize_messages on the current call, the attempt ending as net
run(req, emails, net) ==
    classify_and_summarize_messages(
        emails, req.model, req.labels, req.max_tokens,
        ~req.include_reasoning, req.use_structured_output, req.api_url, net)

\* the handler up to the network attempt: it ends there, or blocks in urlopen
enter(c, out) ==
    /\ pc = "idle"
    /\ call' = c
    /\ wire' = out.wire
    /\ IF out.ret.kind = "return" /\ out.wire.attempts > 0
       THEN pc' = "waiting" /\ ret' = NoRet /\ status' = 0
       ELSE pc' = "returned" /\ ret' = out.ret /\ status' = status_of(out.ret)
    /\ UNCHANGED <<MODEL, OPENROUTER_KEY, API_URL, probe, probeOut, sent_before>>

\* POST /api/classify/emails
classify_emails ==
    /\ pc = "idle"
    /\ \E req \in SweepRequests \cup OptionRequests :
           enter([op |-> "classify_emails", req |-> req], run(req, req.emails, Pending))

\* POST /api/classify/unread: classify_unread_gmail fetches, then classifies
classify_unread ==
    /\ pc = "idle"
    /\ \E req \in UnreadRequests, box \in Mailboxes :
           enter([op |-> "classify_unread", req |-> req, fetched |-> JList(box)],
                 run(req, box, Pending))

\* POST /api/classify/unread when the mail collaborator raises
classify_unread_fails ==
    /\ pc = "idle"
    /\ \E req \in UnreadRequests :
           enter([op |-> "classify_unread", req |-> req, fetched |-> JNull],
                 [ret |-> Raise("Exception"), wire |-> NoWire])

\* the answers explored for a request: all of them under the default
\* options, one of each kind otherwise
NetsFor(c) ==
    IF c.op = "classify_emails" /\ c.req \in SweepRequests THEN Nets ELSE SomeNets

\* the attempt comes back as net and the handler runs to its end
provider_answers ==
    /\ pc = "waiting"
    /\ \E net \in NetsFor(call) :
           LET out == run(call.req, Batch, net)
           IN  /\ pc' = "returned"
               /\ wire' = out.wire
               /\ ret' = out.ret
               /\ status' = status_of(out.ret)
               /\ UNCHANGED <<MODEL, OPENROUTER_KEY, API_URL, call, probe, probeOut, sent_before>>

\* the answer is sent; the process waits for the next request
respond ==
    /\ pc = "returned"
    /\ pc' = "idle"
    /\ call' = NoCall
    /\ wire' = NoWire
    /\ ret' = NoRet
    /\ status' = 0
    /\ UNCHANGED <<MODEL, OPENROUTER_KEY, API_URL, probe, probeOut, sent_before>>

Next ==
    \/ classify_emails
    \/ classify_unread
    \/ classify_unread_fails
    \/ provider_answers
    \/ respond

Spec == Init /\ [][Next]_vars

-----------------------------------------------------------------------------
(* The normalizer on its own: a record is drawn, and ResultNormalizer is   *)
(* applied to it once for each key of one synonym group carrying the same  *)
(* value, as an element of the item list and as the parsed object itself.  *)

\* the keys _normalize_result_item reads for each field, in the order read
SynonymGroups ==
    [id      |-> <<"id", "message_id", "email_id">>,
     label   |-> <<"label", "classificazione", "classification", "category">>,
     summary |-> <<"summary", "riassunto", "sommario", "description">>,
     subject |-> <<"subject", "oggetto">>,
     sender  |-> <<"sender", "mittente", "from">>]

GroupKeys(field) == {SynonymGroups[field][i] : i \in DOMAIN SynonymGroups[field]}

\* the rest of the record: what it holds besides the field under test
ProbeBases ==
    { EmptyDict,
      [foo |-> JNum(1)],
      [label |-> JStr("importante")],
      [riassunto |-> JStr("FYI only."), id |-> JStr("m1")],
      [oggetto |-> JStr("Oggetto"), mittente |-> JStr("boss@x.com")] }

ProbeValues == {JStr("value"), JStr(""), JNum(5), JNull, JList(<<>>)}

Probes ==
    { [of |-> "record", base |-> b, field |-> f, value |-> v] :
          b \in ProbeBases, f \in DOMAIN SynonymGroups, v \in ProbeValues }

\* the record of probe p with its value under key
ProbeRecord(p, key) == (key :> p.value) @@ p.base

\* ResultNormalizer on the record, both ways
normalize_probe(p, key) ==
    [as_element |-> extract_items_from_parsed(
                        [items |-> JList(<<JDict(ProbeRecord(p, key))>>)]),
     as_object  |-> extract_items_from_parsed(ProbeRecord(p, key))]

NormInit ==
    /\ MODEL = JNull /\ OPENROUTER_KEY = JNull /\ API_URL = JNull
    /\ pc = "probe"
    /\ call = NoCall /\ wire = NoWire /\ ret = NoRet /\ status = 0
    /\ probe \in {p \in Probes : DOMAIN p.base \cap GroupKeys(p.field) = {}}
    /\ probeOut = <<>>
    /\ sent_before = JNull

\* apply the normalizer to the record under each key of the group
normalize_record ==
    /\ pc = "probe"
    /\ pc' = "probed"
    /\ probeOut' = [key \in GroupKeys(probe.field) |-> normalize_probe(probe, key)]
    /\ UNCHANGED <<MODEL, OPENROUTER_KEY, API_URL, call, wire, ret, status, probe, sent_before>>

\* take the next record
next_record ==
    /\ pc = "probed"
    /\ pc' = "probe"
    /\ probe' \in {p \in Probes : DOMAIN p.base \cap GroupKeys(p.field) = {}}
    /\ probeOut' = <<>>
    /\ UNCHANGED <<MODEL, OPENROUTER_KEY, API_URL, call, wire, ret, status, sent_before>>

NormNext == normalize_record \/ next_record

NormSpec == NormInit /\ [][NormNext]_vars

-----------------------------------------------------------------------------
(* Sequences of calls with different label sets: the front end as in Spec, *)
(* on requests that vary the label set and the structured-output toggle,   *)
(* with the response_format of the request sent last kept in sent_before.  *)

\* the label sets callers supply: none, an empty one, and two of their own
LabelSets == LabelArgs \cup {JList(<<JStr("urgent")>>)}

LabelRequests ==
    {Request(b, JNull, l, FALSE, s, JNull) :
        b \in SeqsUpTo(EmailInputs, 1) \ {<<>>}, l \in LabelSets, s \in BOOLEAN}

\* POST /api/classify/emails with a label set
classify_labelled ==
    /\ pc = "idle"
    /\ \E req \in LabelRequests :
           enter([op |-> "classify_emails", req |-> req], run(req, req.emails, Pending))

\* the answer is sent; what went to the provider is remembered
respond_remembering ==
    /\ pc = "returned"
    /\ pc' = "idle"
    /\ call' = NoCall
    /\ wire' = NoWire
    /\ ret' = NoRet
    /\ status' = 0
    /\ sent_before' = IF wire.attempts > 0
                      THEN Get(wire.payload.d, "response_format")
                      ELSE sent_before
    /\ UNCHANGED <<MODEL, OPENROUTER_KEY, API_URL, probe, probeOut>>

LabelNext ==
    \/ classify_labelled
    \/ provider_answers
    \/ respond_remembering

LabelSpec == Init /\ [][LabelNext]_vars

-----------------------------------------------------------------------------
(* Notions the properties share *)

\* classify_and_summarize_messages was called and has ended
Ended ==
    /\ pc = "returned"
    /\ call.op \in {"classify_emails", "classify_unread"}
    /\ call.op = "classify_unread" => call.fetched # JNull

\* it was called (it may still be blocked in the network attempt)
Called ==
    /\ pc \in {"waiting", "returned"}
    /\ call.op = "classify_unread" => call.fetched # JNull

ChosenModel == PyOr(call.req.model, MODEL)
TargetUrl == PyOr(call.req.api_url, API_URL)
Payloads == MapSeq(normalize_email_details, Batch)

\* the attempt was made and failed on the wire
WireFailed ==
    wire.attempts = 1 /\ wire.net.kind \in {"undecodable", "http", "url", "other"}

\* the attempt was made and a 2xx answer was decoded
WireOk == wire.attempts = 1 /\ wire.net.kind = "ok"

\* the call returned a result without an error field
Succeeded == Ended /\ ret.kind = "return" /\ "error" \notin DOMAIN ret.value

\* what the extractor recovers from the decoded answer, and the items the
\* normalizer reads from it, before the backfill
Recovered == parse_openrouter_json(wire.net.body).parsed
ModelItems == extract_items_from_parsed(Recovered.d)

\* the payloads whose id is id
Matching(id) == {Payloads[i] : i \in {j \in DOMAIN Payloads : Payloads[j].id = id}}

ItemFields == {"id", "label", "summary", "subject", "sender"}

-----------------------------------------------------------------------------
(* C1: with a non-empty batch and a model but no API credential, the call  *)
(* fails fast with a configuration-class error (ValueError, answered 400), *)
(* before any request is built, and returns no ordinary result.            *)
C1_MissingCredentialFailsFast ==
    (Ended /\ Len(Batch) > 0 /\ Truthy(ChosenModel) /\ ~Truthy(OPENROUTER_KEY))
        => /\ ret = Raise("ValueError")
           /\ status = 400
           /\ wire.messages = JNull

(* C2: for an empty batch the call returns exactly {items: []}, with no    *)
(* error field, and never reaches the network, whatever the configuration  *)
(* and the other arguments.                                                *)
C2_EmptyBatch ==
    (Called /\ Len(Batch) = 0)
        => /\ pc = "returned"
           /\ ret = Return([items |-> <<>>])
           /\ "error" \notin DOMAIN ret.value
           /\ wire.attempts = 0
           /\ wire.payload = JNull

C2_Witness ==
    /\ Ended /\ Len(Batch) = 0
    /\ ~Truthy(MODEL) /\ ~Truthy(OPENROUTER_KEY) /\ ~Truthy(API_URL)
    /\ call.req.model = JNull /\ call.req.labels # JNull /\ ~call.req.use_structured_output

(* C3: every failure of the wire attempt (HTTP status, connection failure, *)
(* any other exception, also when the error body cannot be read) comes     *)
(* back as a tagged error value, and the call returns {items: [], error:   *)
(* "OpenRouter error", details: <that value>} without raising.             *)
C3_WireFailureIsData ==
    (Ended /\ WireFailed)
        => /\ ret.kind = "return"
           /\ DOMAIN ret.value = {"items", "error", "details"}
           /\ ret.value.items = <<>>
           /\ ret.value.error = "OpenRouter error"
           /\ IsDict(ret.value.details)
           /\ LET d == ret.value.details.d
                  net == wire.net
              IN  CASE net.kind = "http" ->
                          /\ d.error = JStr("HTTPError")
                          /\ d.status = JNum(net.code)
                          /\ d.reason = JStr(net.reason)
                          /\ d.body = JStr(IF net.readable THEN net.body ELSE "")
                    [] net.kind = "url" ->
                          d.error = JStr("URLError") /\ d.reason = JStr(net.reason)
                    [] OTHER ->
                          d.error = JStr("UnexpectedError") /\ "message" \in DOMAIN d

C3_Witness ==
    /\ Ended /\ WireFailed
    /\ wire.net.kind = "http" /\ ~wire.net.readable
    /\ ret.value.error = "OpenRouter error"

(* C4, as stated: in every expected failure mode (missing model,           *)
(* credential or endpoint; transport error; extraction failure; empty      *)
(* input) the call never raises.                                           *)
C4_NeverRaises == Ended => ret.kind = "return"

\* the call met one of the failure modes that do not raise
FailureMode ==
    \/ ~Truthy(OPENROUTER_KEY)
    \/ ~Truthy(TargetUrl)
    \/ WireFailed
    \/ WireOk /\ wire.net.body \in
           {Chat(JText(x)) : x \in Unparsable}
           \cup {Chat(JNull), Chat(JText(<<>>)), JDict([choices |-> JList(<<>>)])}

(* C4, amended: a missing model with a non-empty batch raises ValueError   *)
(* before anything is sent; in every other expected failure mode (missing  *)
(* credential or endpoint, transport error, extraction failure, empty      *)
(* input) the call returns a value with an items list, which on failure is *)
(* empty and comes with an error field.                                    *)
C4_RaisesOnlyForModel ==
    Ended =>
        IF Len(Batch) > 0 /\ ~Truthy(ChosenModel)
        THEN ret = Raise("ValueError") /\ wire.attempts = 0
        ELSE /\ ret.kind = "return"
             /\ "items" \in DOMAIN ret.value
             /\ DOMAIN ret.value.items = 1..Len(ret.value.items)
             /\ (Len(Batch) > 0 /\ FailureMode)
                    => /\ ret.value.items = <<>>
                       /\ "error" \in DOMAIN ret.value
                       /\ ret.value.error # ""

C4_Witness ==
    /\ Ended /\ Len(Batch) > 0 /\ Truthy(ChosenModel)
    /\ ~Truthy(OPENROUTER_KEY)
    /\ ret = Return([items |-> <<>>, error |-> "No response from OpenRouter."])

(* C5: when the content is a bare JSON list of records, with no items     *)
(* wrapper, the result holds one item per record, with the record's label  *)
(* and summary and id "" when the record has none, and no error.           *)
C5_BareListIsNormalized ==
    \A l \in RecordLists :
        (Ended /\ WireOk /\ Len(l) > 0 /\ wire.net.body = Chat(JText(BareList(l))))
            => /\ ret.kind = "return"
               /\ "error" \notin DOMAIN ret.value
               /\ Len(ret.value.items) = Len(l)
               /\ \A i \in 1..Len(l) :
                      /\ ret.value.items[i].label = normalize_result_item(l[i].d).label
                      /\ ret.value.items[i].summary = normalize_result_item(l[i].d).summary
                      /\ DOMAIN l[i].d \cap {"id", "message_id", "email_id"} = {}
                             => ret.value.items[i].id = JStr("")

(* C6: backfill law.  For every item of the model whose non-empty id is    *)
(* the id of an input payload, an empty subject (sender) becomes the       *)
(* subject (sender) of an input payload with that id, and a non-empty      *)
(* subject (sender) stays as the model gave it.                            *)
C6_BackfillLaw ==
    (Succeeded /\ WireOk)
        => /\ Len(ret.value.items) = Len(ModelItems)
           /\ \A i \in 1..Len(ModelItems) :
                  LET m == ModelItems[i]
                      f == ret.value.items[i]
                  IN  (Truthy(m.id) /\ Matching(m.id) # {})
                          => \A field \in {"subject", "sender"} :
                                 IF Truthy(m[field]) THEN f[field] = m[field]
                                 ELSE \E p \in Matching(m.id) : f[field] = p[field]

\* Scenario A and its converse in one reply: the first item is filled in from
\* the input, the second keeps what the model wrote
C6_Witness ==
    /\ Succeeded /\ WireOk /\ Len(ModelItems) = 2
    /\ ModelItems[1].id = JStr("m1") /\ ModelItems[1].subject = JStr("")
    /\ ret.value.items[1].subject = JStr("Invoice due")
    /\ ret.value.items[1].sender = JStr("billing@x.com")
    /\ ModelItems[2].id = JStr("m1")
    /\ ret.value.items[2].subject = JStr("Other subject")
    /\ ret.value.items[2].sender = JStr("other@y.com")

\* the content string the extractor hands back for the decoded answer
ExtractedContent ==
    LET body == wire.net.body
    IN  IF \E x \in ReplyTexts : x # <<>> /\ body = Chat(JText(x))
        THEN body.d.choices.l[1].d.message.d.content
        ELSE PyOr(extract_content(body), JText(<<>>))

\* the result of an extraction failure
IsParseFailure ==
    /\ ret.kind = "return"
    /\ DOMAIN ret.value = {"items", "error", "raw_content", "raw_response"}
    /\ ret.value.items = <<>>
    /\ ret.value.error = "Failed to parse JSON response."
    /\ ret.value.raw_content = ExtractedContent
    /\ ret.value.raw_response = wire.net.body

(* C7, as stated: whenever no JSON object can be recovered from a          *)
(* transport-successful response, the result is items = [], error =        *)
(* "Failed to parse JSON response." and raw_content the extracted content, *)
(* not fence-stripped ("" when no content was found).                      *)
C7_NoObjectIsParseFailure ==
    (Ended /\ WireOk /\ ~IsDict(Recovered)) => IsParseFailure

(* C7, amended: the same, for a transport-successful response that is not  *)
(* empty (falsy) and is not an error record (a non-empty error field and   *)
(* no choices field); those two are answered "No response from             *)
(* OpenRouter." and "OpenRouter error".                                    *)
C7_NoObjectInUsableResponse ==
    (Ended /\ WireOk /\ ~IsDict(Recovered))
        => LET body == wire.net.body
           IN  IF ~Truthy(body)
               THEN ret = Return([items |-> <<>>, error |-> "No response from OpenRouter."])
               ELSE IF IsDict(body) /\ Truthy(Get(body.d, "error"))
                       /\ "choices" \notin DOMAIN body.d
               THEN ret = Return([items |-> <<>>, error |-> "OpenRouter error",
                                  details |-> body])
               ELSE IsParseFailure

\* a fenced reply that holds no object: raw_content keeps the fences
C7_Witness ==
    /\ Ended /\ WireOk /\ ~IsDict(Recovered) /\ IsParseFailure
    /\ ret.value.raw_content =
           JText(<<TFence, TWord, TNl, TWord, TSp, TWord, TNl, TFence>>)

(* C9, as stated: in every result, an item whose id is not empty has the   *)
(* id of some email of the input batch.                                    *)
C9_IdsComeFromBatch ==
    (Ended /\ ret.kind = "return")
        => \A i \in DOMAIN ret.value.items :
               Truthy(ret.value.items[i].id) => Matching(ret.value.items[i].id) # {}

(* C9, amended: in every result, each item keeps the id the model gave it; *)
(* an item whose non-empty id is the id of no email of the batch is passed *)
(* through, with the subject and sender the model gave it (empty when it   *)
(* gave none), nothing being filled in from the input.                     *)
C9_UnknownIdsPassThrough ==
    (Succeeded /\ WireOk)
        => /\ Len(ret.value.items) = Len(ModelItems)
           /\ \A i \in 1..Len(ModelItems) :
                  LET m == ModelItems[i]
                      f == ret.value.items[i]
                  IN  /\ f.id = m.id
                      /\ (Truthy(m.id) /\ Matching(m.id) = {})
                             => f.subject = m.subject /\ f.sender = m.sender

C9_Witness ==
    /\ Succeeded /\ WireOk
    /\ \E i \in DOMAIN ret.value.items :
           /\ ret.value.items[i].id = JStr(UnknownId)
           /\ Matching(JStr(UnknownId)) = {}
           /\ ret.value.items[i].subject = JStr("")
    /\ \E j \in DOMAIN Payloads : Truthy(Payloads[j].subject)

(* C10: in every result, the five fields of every item are strings, for    *)
(* every batch the API accepts (also records whose subject or sender is    *)
(* absent or null) and every reply, also after the backfill.               *)
C10_FieldsAreStrings ==
    (Ended /\ ret.kind = "return")
        => \A i \in DOMAIN ret.value.items :
               /\ DOMAIN ret.value.items[i] = ItemFields
               /\ \A field \in ItemFields : IsStr(ret.value.items[i][field])

\* the labels a prompt lists: its texts between the separators
Listed(label_list) == SelectSeq(label_list, LAMBDA x : x # JStr(", "))

\* the label set of the current call: the caller's when it is supplied and
\* not empty, the default one otherwise
ActiveLabels ==
    IF call.req.labels # JNull /\ Len(call.req.labels.l) > 0
    THEN call.req.labels.l
    ELSE <<JStr("azione_richiesta"), JStr("informazione"),
           JStr("importante"), JStr("non_importante")>>

\* the label enumeration of the response_format the current call sent
SentEnum == wire.payload.d.response_format.d.enum

(* C11: in every call that requests structured output, after any sequence  *)
(* of earlier calls, the label enumeration of the response_format sent is  *)
(* the list of labels the prompt of the same request shows, and both are   *)
(* the caller's label set when one is supplied and not empty, the four     *)
(* default labels otherwise.                                               *)
C11_SchemaMatchesPrompt ==
    (Called /\ wire.payload # JNull /\ call.req.use_structured_output)
        => /\ "response_format" \in DOMAIN wire.payload.d
           /\ SentEnum = ActiveLabels
           /\ Listed(wire.messages[1].label_list) = SentEnum
           /\ wire.payload.d.messages = wire.messages

\* a call with the caller's labels right after a call sent another schema
C11_Witness ==
    /\ Called /\ wire.payload # JNull /\ call.req.use_structured_output
    /\ call.req.labels = JList(<<JStr("spam"), JStr("ham")>>)
    /\ sent_before # JNull
    /\ sent_before.d.enum # SentEnum
    /\ SentEnum = <<JStr("spam"), JStr("ham")>>

\* the first choice of response r and its message, as records ({} when absent
\* or not a record)
FirstChoice(r) ==
    LET choices == Get(r.d, "choices")
    IN  IF IsList(choices) /\ Len(choices.l) > 0 /\ IsDict(choices.l[1])
        THEN choices.l[1].d ELSE EmptyDict
FirstMessage(r) ==
    LET message == Get(FirstChoice(r), "message")
    IN  IF IsDict(message) THEN message.d ELSE EmptyDict

\* the pre-parsed object of r: under parsed at the top level or in the
\* message of the first choice (None when neither holds an object)
PreParsed(r) ==
    IF IsDict(Get(r.d, "parsed")) THEN Get(r.d, "parsed")
    ELSE IF IsDict(Get(FirstMessage(r), "parsed")) THEN Get(FirstMessage(r), "parsed")
    ELSE JNull

\* the content found in r: what the content at the top level and the
\* content of the first choice's message yield, when that is not empty
ContentsFound(r) ==
    {c \in {content_from_parts(Get(r.d, "content")),
            content_from_parts(Get(FirstMessage(r), "content"))} : Truthy(c)}

\* the decoded answer goes to the extractor: it is a record, and neither
\* empty nor an error record
Usable(r) ==
    /\ IsDict(r) /\ Truthy(r)
    /\ ~(Truthy(Get(r.d, "error")) /\ "choices" \notin DOMAIN r.d)

\* the result of the current call when the extractor hands back parsed and
\* content
Outcome(parsed, content) ==
    IF IsDict(parsed)
    THEN LET items == extract_items_from_parsed(parsed.d)
         IN  [items |-> [i \in 1..Len(items) |-> backfill(items[i], Payloads)]]
    ELSE [items |-> <<>>, error |-> "Failed to parse JSON response.",
          raw_content |-> content, raw_response |-> wire.net.body]

(* C12: the extractor works in a fixed order of priority and stops at the  *)
(* first success.  A pre-parsed object (parsed at the top level or in the  *)
(* first choice's message) is the result whatever the content holds;       *)
(* otherwise content found at the top level or in the first choice's       *)
(* message is used; the text of the first choice is used only when no      *)
(* content was found (none that yields a non-empty text or an object).     *)
C12_ExtractionPriority ==
    (Ended /\ WireOk /\ Usable(wire.net.body))
        => LET r == wire.net.body
               text == Get(FirstChoice(r), "text")
           IN  /\ ret.kind = "return"
               /\ IF PreParsed(r) # JNull
                  THEN ret.value = Outcome(PreParsed(r), JNull)
                  ELSE IF ContentsFound(r) # {}
                  THEN \E c \in ContentsFound(r) :
                           ret.value = Outcome(parse_json_content(c.x), c)
                  ELSE IF IsStr(text)
                  THEN ret.value = Outcome(parse_json_content(text.x), text)
                  ELSE ret.value = Outcome(JNull, JText(<<>>))

\* a pre-parsed empty item list wins over content and text that hold an item
C12_Witness ==
    /\ Ended /\ WireOk /\ Usable(wire.net.body)
    /\ PreParsed(wire.net.body) = JDict(NoItems)
    /\ ContentsFound(wire.net.body) = {JText(Plain(SomeObject))}
    /\ Get(FirstChoice(wire.net.body), "text") = JText(Plain(SomeObject))
    /\ ret = Return([items |-> <<>>])

\* the item-ish keys of the claim: label, summary, classification, subject
\* and sender, and their Italian forms among the synonyms
ItemishWords ==
    {"label", "summary", "classification", "subject", "sender",
     "classificazione", "riassunto", "sommario", "oggetto", "mittente"}

\* none of items, emails, results holds an array in the recovered object
NoArray == \A k \in {"items", "emails", "results"} : ~IsList(Get(Recovered.d, k))

(* C13: when none of the keys items, emails, results of the parsed object  *)
(* holds an array, the normalizer takes the whole object as a one-element  *)
(* item list if and only if the object has at least one item-ish key       *)
(* (label, summary, classification, subject or sender, in English or       *)
(* Italian); otherwise the result list is empty and no error is reported.  *)
C13_SingleItemObject ==
    (Ended /\ WireOk /\ Usable(wire.net.body) /\ IsDict(Recovered) /\ NoArray)
        => LET expected == IF DOMAIN Recovered.d \cap ItemishWords # {}
                           THEN <<normalize_result_item(Recovered.d)>>
                           ELSE <<>>
           IN  ret = Return([items |-> [i \in 1..Len(expected) |->
                                           backfill(expected[i], Payloads)]])

\* the value of the first key of field's synonym group that element e holds,
\* "" when it holds none or that value is not a string
FirstPresent(e, field) ==
    LET group   == SynonymGroups[field]
        present == {i \in DOMAIN group : group[i] \in DOMAIN e}
    IN  IF present = {} THEN JStr("")
        ELSE LET v == e[group[CHOOSE i \in present : \A j \in present : i <= j]]
             IN  IF IsStr(v) THEN v ELSE JStr("")

(* C14: for every record-shaped element of the item list and every         *)
(* canonical field, the normalized value is the value of the first key of  *)
(* the field's synonym group that the element holds, or "" when it holds   *)
(* none or that value is not a string; a later synonym is never read once  *)
(* an earlier one is present.  (The result shows the normalized items      *)
(* after the backfill of subject and sender.)                              *)
C14_FirstPresentKey ==
    (Ended /\ WireOk /\ Usable(wire.net.body) /\ IsDict(Recovered)
           /\ IsList(Get(Recovered.d, "items")))
        => LET elements == SelectSeq(Recovered.d.items.l, IsDict)
               expected == [i \in 1..Len(elements) |->
                               [field \in ItemFields |->
                                    FirstPresent(elements[i].d, field)]]
           IN  ret = Return([items |-> [i \in 1..Len(expected) |->
                                           backfill(expected[i], Payloads)]])

(* C8: synonym invariance.  The normalized result is the same whichever   *)
(* key of a field's synonym group carries the value, when the record is an *)
(* element of the item list and when the parsed object is the record.      *)
C8_SynonymInvariance ==
    pc = "probed"
        => \A k1 \in GroupKeys(probe.field), k2 \in GroupKeys(probe.field) :
               /\ probeOut[k1].as_element = probeOut[k2].as_element
               /\ probeOut[k1].as_object = probeOut[k2].as_object

====
